---- MODULE Spec2Model ----
(***************************************************************************)
(* AvaAGENT backend: the x402 payment service (create_payment_header,      *)
(* verify_payment, settle_payment and the /payments endpoints) and the     *)
(* wallet service's spend-limit ledger and policy evaluation.              *)
(*                                                                         *)
(* Python values are modelled as tagged records, a dict as the sequence of *)
(* its [k, v] items in insertion order, json.dumps(sort_keys=True) as the  *)
(* sequence sorted by key, and an ECDSA signature symbolically as the pair *)
(* (key, signed message).                                                  *)
(***************************************************************************)
EXTENDS Integers, Sequences, FiniteSets, TLC

VARIABLES
    now,        \* time.time(), whole seconds
    ticks,      \* number of clock advances so far
    hdr,        \* the x-payment header value a client holds
    tampered,   \* whether hdr is anything but what create_payment_header returned
    resp,       \* the response of the request handled in the last step, if any
    calls,      \* the requests the Thirdweb facilitator has received, in order
    limits,     \* the spend_limits table: limit id -> row
    policies,   \* the wallet_policies table: policy id -> row
    pc,         \* where each spending task is in its check-settle-record cycle
    loaded,     \* the rows record_spend has selected in each task's session
    cycles,     \* the number of cycles that settled and recorded their spend
    agents      \* the agents table: agent id -> row

payVars == <<hdr, tampered, calls>>
ledgerVars == <<limits, policies, pc, loaded, cycles, agents>>
vars == <<now, ticks, hdr, tampered, resp, calls, limits, policies, pc, loaded, cycles, agents>>

----------------------------------------------------------------------------
\* Bounds of the model.

MaxTicks == 2
MaxCalls == 2
NumTasks == 2
MaxCycles == 12

\* Program constants.

VALIDITY_SECONDS == 3600
FUJI_CHAIN_ID == 43113
KITE_CHAIN_ID == 2368
AVALANCHE_CHAIN_ID == 43114

\* A float price in USD is a whole number p of 1/PriceFraction micro-dollars,
\* so that price_usd * 1_000_000 is p / PriceFraction and int() truncates it.
PriceFraction == 2

----------------------------------------------------------------------------
\* Python values.

JNone == [t |-> "none"]
JStr(s) == [t |-> "str", s |-> s]
JInt(n) == [t |-> "int", n |-> n]
\* str(n) of an integer n: a string of decimal digits.
JNumeral(n) == [t |-> "numeral", n |-> n]
\* The hex string of a 65-byte signature made with `key` over `msg`.
JHexSig(key, msg) == [t |-> "hexsig", key |-> key, msg |-> msg]

\* int(v): raises for None and for a string that is no numeral.
CanInt(v) == v.t \in {"int", "numeral"}
IntOf(v) == v.n

\* int(price_usd * 1_000_000) for a price of p / PriceFraction micro-dollars.
ToWei(p) == p \div PriceFraction

\* str.lower() on the addresses of the model.
Lower(a) ==
    CASE a = "0xA1" -> "0xa1"
      [] a = "0xB2" -> "0xb2"
      [] OTHER -> a

\* The checksummed address of a private key (Account.from_key(k).address).
AddressOf(key) ==
    CASE key = "k1" -> "0xA1"
      [] key = "k2" -> "0xB2"
      [] OTHER -> "0xDEAD"

----------------------------------------------------------------------------
\* dict operations on a sequence of [k, v] items.

Has(d, k) == \E i \in DOMAIN d : d[i].k = k

Get(d, k, default) ==
    IF Has(d, k) THEN d[CHOOSE i \in DOMAIN d : d[i].k = k].v ELSE default

\* d[k] = v: replaces in place, or appends a new key at the end.
Put(d, k, v) ==
    IF Has(d, k)
    THEN [i \in DOMAIN d |-> IF d[i].k = k THEN [k |-> k, v |-> v] ELSE d[i]]
    ELSE Append(d, [k |-> k, v |-> v])

Without(d, ks) == SelectSeq(d, LAMBDA e : e.k \notin ks)

\* The order of the field names as Python compares strings.
KeyRank(k) ==
    CASE k = "amount" -> 1
      [] k = "asset" -> 2
      [] k = "chainId" -> 3
      [] k = "nonce" -> 4
      [] k = "payTo" -> 5
      [] k = "resource" -> 6
      [] k = "signature" -> 7
      [] k = "signer" -> 8
      [] k = "validUntil" -> 9
      [] k = "version" -> 10
      [] OTHER -> 11

\* json.dumps(d, sort_keys=True): the items in ascending key order.
DumpsSorted(d) ==
    [p \in DOMAIN d |->
        d[CHOOSE j \in DOMAIN d :
            Cardinality({i \in DOMAIN d : KeyRank(d[i].k) < KeyRank(d[j].k)}) = p - 1]]

\* json.dumps(d): the items in insertion order.
Dumps(d) == d

\* base64 of the JSON text of a dict, and the other header values a client
\* can send: not base64, base64 of a non-JSON text, base64 of a JSON list.
B64Json(d) == [enc |-> "b64", json |-> "object", obj |-> Dumps(d)]
NotBase64 == [enc |-> "garbage", json |-> "", obj |-> <<>>]
NotJson == [enc |-> "b64", json |-> "garbage", obj |-> <<>>]
JsonList == [enc |-> "b64", json |-> "list", obj |-> <<>>]
NoHeader == [enc |-> "none", json |-> "", obj |-> <<>>]

NoResponse == [op |-> "none"]

----------------------------------------------------------------------------
\* X402Service.

NETWORKS ==
    [avalanche |-> [chain_id |-> AVALANCHE_CHAIN_ID, usdc |-> "0xB97E"],
     avalanche_fuji |-> [chain_id |-> FUJI_CHAIN_ID, usdc |-> "0x5425"],
     kite_testnet |-> [chain_id |-> KITE_CHAIN_ID, usdc |-> "0x0000"]]

NetworkNames == DOMAIN NETWORKS

\* The nonce: sha256 of the clock reading and the wallet address.
NonceOf(clock, wallet_address) ==
    [t |-> "digest", clock |-> clock, wallet_address |-> wallet_address]

\* payment_data as create_payment_header builds it, before signing.
PaymentData(wallet_address, resource_url, price_usd, pay_to, network, clock) ==
    << [k |-> "version", v |-> JStr("1")],
       [k |-> "resource", v |-> JStr(resource_url)],
       [k |-> "amount", v |-> JNumeral(ToWei(price_usd))],
       [k |-> "asset", v |-> JStr(NETWORKS[network].usdc)],
       [k |-> "payTo", v |-> JStr(pay_to)],
       [k |-> "chainId", v |-> JInt(NETWORKS[network].chain_id)],
       [k |-> "validUntil", v |-> JInt(clock + VALIDITY_SECONDS)],
       [k |-> "nonce", v |-> NonceOf(clock, wallet_address)] >>

\* The message the signer signs.
SignedMessage(payment_data) == DumpsSorted(payment_data)

\* create_payment_header for a supported network and a well-formed key.
CreatePaymentHeader(wallet_address, private_key, resource_url, price_usd, pay_to, network, clock) ==
    LET payment_data ==
            PaymentData(wallet_address, resource_url, price_usd, pay_to, network, clock)
        signed == JHexSig(private_key, SignedMessage(payment_data))
    IN  B64Json(Put(Put(payment_data, "signature", signed),
                    "signer", JStr(wallet_address)))

\* The message the verifier recovers the signer from.
VerifyMessage(payment_data) ==
    DumpsSorted(Without(payment_data, {"signature", "signer"}))

\* bytes.fromhex(sig.replace("0x", "")) then Account.recover_message: the
\* outcome is an address, or an exception.
RecoverRaises(sig) ==
    \/ sig.t # "hexsig"
    \/ sig.key = "truncated"

Recover(message, sig) ==
    IF sig.key \in {"k1", "k2"} /\ sig.msg = message
    THEN AddressOf(sig.key)
    ELSE "0xDEAD"

Invalid(error) == [valid |-> FALSE, error |-> error, data |-> <<>>]

\* The except clause of verify_payment: (False, {"error": str(e)}).
SwallowException(e) == [valid |-> TRUE, error |-> "", data |-> <<>>]
OnException(e) == Invalid("exception: " \o e)

VerifyPayment(payment_header, expected_price_usd, resource_url, clock) ==
    IF payment_header.enc # "b64" THEN OnException("b64decode")
    ELSE IF payment_header.json = "garbage" THEN OnException("json.loads")
    ELSE IF payment_header.json # "object" THEN OnException("no attribute get")
    ELSE
    LET payment_data == payment_header.obj
        amount == Get(payment_data, "amount", JInt(0))
        valid_until == Get(payment_data, "validUntil", JInt(0))
        signer == Get(payment_data, "signer", JNone)
        signature == Get(payment_data, "signature", JStr(""))
    IN  IF Get(payment_data, "resource", JNone) # JStr(resource_url)
            THEN Invalid("Resource URL mismatch")
        ELSE IF ~CanInt(amount) THEN OnException("int()")
        ELSE IF IntOf(amount) < ToWei(expected_price_usd)
            THEN Invalid("Insufficient payment amount")
        ELSE IF valid_until.t # "int" THEN OnException("'<' not supported")
        ELSE IF valid_until.n < clock THEN Invalid("Payment expired")
        ELSE IF signature.t \in {"none", "int"}
            THEN OnException("no attribute replace")
        ELSE IF RecoverRaises(signature) THEN OnException("recover_message")
        ELSE IF signer.t \in {"none", "int"}
            THEN OnException("no attribute lower")
        ELSE IF signer.t # "str"
                \/ Lower(Recover(VerifyMessage(payment_data), signature)) # Lower(signer.s)
            THEN Invalid("Invalid signature")
        ELSE [valid |-> TRUE, error |-> "", data |-> payment_data]

\* The outcome of settle_payment before it reaches the facilitator: the
\* request it will post, or the response it returns without posting.
\* actual_amount_usd is None (NotProvided) or a float; `if actual_amount_usd:`
\* takes neither None nor 0.0.
NotProvided == -1
Truthy(actual_amount_usd) == actual_amount_usd \notin {NotProvided, 0}

SettleAmount(payment_data, actual_amount_usd) ==
    IF Truthy(actual_amount_usd)
    THEN ToWei(actual_amount_usd)
    ELSE IntOf(Get(payment_data, "amount", JInt(0)))

ChainSupported(chain_id) ==
    \E net \in NetworkNames : JInt(NETWORKS[net].chain_id) = chain_id

SettlePlanAnyChain(payment_json, actual_amount_usd) ==
    IF payment_json.json # "object"
        THEN [post |-> FALSE, status |-> 500, error |-> "exception: no attribute get"]
    ELSE [post |-> TRUE,
          paymentData |-> payment_json.obj,
          amount |-> SettleAmount(payment_json.obj, actual_amount_usd),
          chainId |-> Get(payment_json.obj, "chainId", JNone).n]
SettlePlan(payment_json, actual_amount_usd) ==
    IF payment_json.json # "object"
        THEN [post |-> FALSE, status |-> 500, error |-> "exception: no attribute get"]
    ELSE
    LET payment_data == payment_json.obj
        chain_id == Get(payment_data, "chainId", JNone)
    IN  IF ~ChainSupported(chain_id)
            THEN [post |-> FALSE, status |-> 400, error |-> "Unsupported chain ID"]
        ELSE IF ~Truthy(actual_amount_usd) /\ ~CanInt(Get(payment_data, "amount", JInt(0)))
            THEN [post |-> FALSE, status |-> 500, error |-> "exception: int()"]
        ELSE [post |-> TRUE,
              paymentData |-> payment_data,
              amount |-> SettleAmount(payment_data, actual_amount_usd),
              chainId |-> chain_id.n]

\* What the facilitator can answer to one POST /x402/settle: 200 with a
\* transaction hash, another status, or no answer in time (httpx raises).
FacilitatorOutcomes == {"200", "402", "timeout"}

\* X402PaymentResponse for a posted request that got `outcome`; the hash of
\* the n-th transfer is "tx" n.
SettleResponse(plan, outcome, n) ==
    IF ~plan.post
        THEN [status |-> plan.status, settled |-> FALSE, tx_hash |-> <<>>,
              amount_paid |-> 0, error |-> plan.error]
    ELSE IF outcome = "200"
        THEN [status |-> 200, settled |-> TRUE, tx_hash |-> <<"tx", n>>,
              amount_paid |-> plan.amount, error |-> ""]
    ELSE IF outcome = "402"
        THEN [status |-> 402, settled |-> FALSE, tx_hash |-> <<>>,
              amount_paid |-> 0, error |-> "facilitator error"]
    ELSE [status |-> 500, settled |-> FALSE, tx_hash |-> <<>>,
          amount_paid |-> 0, error |-> "exception: timeout"]

\* settle_payment as a step of the handler `op`, whose response becomes
\* respond[its X402PaymentResponse]. `verified` and `guard` record what the
\* handler had established before the call.
SettlePayment(payment_json, actual_amount_usd, op, verified, guard) ==
    LET plan == SettlePlan(payment_json, actual_amount_usd)
        Respond(result) ==
            [op |-> op, header |-> hdr, clock |-> now,
             price |-> actual_amount_usd, result |-> result]
    IN  IF ~plan.post
        THEN /\ resp' = Respond(SettleResponse(plan, "", 0))
             /\ calls' = calls
        ELSE /\ Len(calls) < MaxCalls
             /\ \E outcome \in FacilitatorOutcomes :
                 /\ resp' = Respond(SettleResponse(plan, outcome, Len(calls) + 1))
                 /\ calls' = Append(calls,
                        [paymentData |-> plan.paymentData,
                         nonce |-> Get(plan.paymentData, "nonce", JNone),
                         amount |-> plan.amount,
                         chainId |-> plan.chainId,
                         outcome |-> outcome,
                         clock |-> now,
                         op |-> op,
                         verified |-> verified,
                         guard |-> guard])

----------------------------------------------------------------------------
\* The inputs of the requests.

PAID_PRICE_MICRO == 10000
PaidPrice == PriceFraction * PAID_PRICE_MICRO
PaidUrl == "/payments/paid-resource"
ServerWallet == "0x5E4F"

Addresses == {"0xA1", "0xa1", "0xB2"}
Keys == {"k1", "malformed"}
Urls == {PaidUrl, "/other"}
SignUrls == {PaidUrl}
SignPrices == {PaidPrice - 1, PaidPrice + 1}
VerifyPrices == {PaidPrice, PaidPrice + PriceFraction}
SignNetworks == {"avalanche_fuji", "base"}
ActualAmounts == {NotProvided, 0, 4 * PaidPrice}

RequiredFields ==
    {"version", "resource", "amount", "asset", "payTo", "chainId",
     "validUntil", "nonce", "signer", "signature"}
SignedFields == RequiredFields \ {"signer", "signature"}

Reverse(d) == [i \in DOMAIN d |-> d[Len(d) + 1 - i]]

\* A validUntil later than any create_payment_header writes in a behaviour.
LaterExpiry == 8 * 86400

\* What a client can do to the payment data of a header: drop a field,
\* overwrite a field, or write the fields in another order.
Edits ==
    [kind : {"drop"}, field : RequiredFields, value : {JNone}]
    \cup [kind : {"put"}, field : {"amount"}, value : {JNumeral(4 * PAID_PRICE_MICRO), JStr("ten")}]
    \cup [kind : {"put"}, field : {"resource"}, value : {JStr(PaidUrl), JStr("/other")}]
    \cup [kind : {"put"}, field : {"validUntil"}, value : {JInt(LaterExpiry), JStr("never")}]
    \cup [kind : {"put"}, field : {"chainId"}, value : {JInt(1)}]
    \cup [kind : {"put"}, field : {"signer"}, value : {JStr("0xB2"), JStr("0xA1")}]
    \cup [kind : {"put"}, field : {"signature"}, value : {JStr("zz"), JInt(7)}]
    \cup [kind : {"reverse"}, field : {""}, value : {JNone}]

PayEdits ==
    [kind : {"put"}, field : {"chainId"}, value : {JInt(1)}]
    \cup [kind : {"put"}, field : {"amount"}, value : {JNumeral(4 * PAID_PRICE_MICRO)}]

ApplyEdit(d, e) ==
    CASE e.kind = "drop" -> Without(d, {e.field})
      [] e.kind = "put" -> Put(d, e.field, e.value)
      [] OTHER -> Reverse(d)

\* A signature with one byte changed, and one cut short.
BrokenSignature(sig, how) == [sig EXCEPT !.key = how]

----------------------------------------------------------------------------
\* POST /payments/create-header. A behaviour follows one header: the client
\* asks for it once.
Sign(addrs, keys, urls, prices) ==
    /\ hdr = NoHeader
    /\ \E wallet_address \in addrs, private_key \in keys, resource_url \in urls,
       price_usd \in prices, network \in SignNetworks :
        IF network \notin NetworkNames \/ private_key = "malformed"
        THEN /\ resp' = [op |-> "create-header", status |-> 500]
             /\ UNCHANGED <<now, ticks, hdr, tampered, calls, ledgerVars>>
        ELSE /\ hdr' = CreatePaymentHeader(wallet_address, private_key, resource_url,
                                           price_usd, ServerWallet, network, now)
             /\ tampered' = FALSE
             /\ resp' = [op |-> "create-header", status |-> 200,
                         wallet_address |-> wallet_address, private_key |-> private_key,
                         resource_url |-> resource_url, price_usd |-> price_usd,
                         expires_at |-> now + VALIDITY_SECONDS]
             /\ UNCHANGED <<now, ticks, calls, ledgerVars>>

\* A further POST /payments/create-header by a client that already holds an
\* untouched header: the new header replaces the one it holds.
SignAgain(addrs, keys, urls, prices) ==
    /\ hdr # NoHeader /\ ~tampered
    /\ \E wallet_address \in addrs, private_key \in keys, resource_url \in urls,
       price_usd \in prices, network \in SignNetworks :
        IF network \notin NetworkNames \/ private_key = "malformed"
        THEN /\ resp' = [op |-> "create-header", status |-> 500]
             /\ hdr' = hdr
        ELSE /\ hdr' = CreatePaymentHeader(wallet_address, private_key, resource_url,
                                           price_usd, ServerWallet, network, now)
             /\ resp' = [op |-> "create-header", status |-> 200,
                         wallet_address |-> wallet_address, private_key |-> private_key,
                         resource_url |-> resource_url, price_usd |-> price_usd,
                         expires_at |-> now + VALIDITY_SECONDS]
    /\ UNCHANGED <<now, ticks, tampered, calls, ledgerVars>>

\* A client that builds and signs its own payment data, with the same
\* canonical message, but not the fields create_payment_header writes.
ClientSign(addrs, keys, edits) ==
    /\ hdr = NoHeader
    /\ \E wallet_address \in addrs, private_key \in keys \ {"malformed"}, e \in edits :
        LET payment_data ==
                ApplyEdit(PaymentData(wallet_address, PaidUrl, PaidPrice,
                                      ServerWallet, "avalanche_fuji", now), e)
            unsigned == Without(payment_data, {"signature", "signer"})
            signed == JHexSig(private_key, DumpsSorted(unsigned))
        IN  hdr' = B64Json(Put(Put(unsigned, "signer", JStr(wallet_address)),
                               "signature", signed))
    /\ tampered' = TRUE
    /\ resp' = NoResponse
    /\ UNCHANGED <<now, ticks, calls, ledgerVars>>

\* A client (or anyone on the path) changes the header it holds, once.
Tamper(edits) ==
    /\ ~tampered
    /\ hdr.enc = "b64" /\ hdr.json = "object"
    /\ \/ \E e \in edits : hdr' = B64Json(ApplyEdit(hdr.obj, e))
       \/ /\ Has(hdr.obj, "signature")
          /\ \E how \in {"flipped", "truncated"} :
               hdr' = B64Json(Put(hdr.obj, "signature",
                          BrokenSignature(Get(hdr.obj, "signature", JNone), how)))
       \/ hdr' \in {NotBase64, NotJson, JsonList}
    /\ tampered' = TRUE
    /\ resp' = NoResponse
    /\ UNCHANGED <<now, ticks, calls, ledgerVars>>

\* POST /payments/verify
VerifyAndSettle ==
    /\ hdr # NoHeader
    /\ \E expected_price_usd \in VerifyPrices, resource_url \in Urls :
        LET result == VerifyPayment(hdr, expected_price_usd, resource_url, now)
        IN  /\ resp' = [op |-> "verify", header |-> hdr, clock |-> now,
                        price |-> expected_price_usd, url |-> resource_url,
                        result |-> result]
            /\ calls' = IF result.valid /\ Len(calls) < MaxCalls
                        THEN Append(calls, [paymentData |-> result.data])
                        ELSE calls
    /\ UNCHANGED <<now, ticks, hdr, tampered, ledgerVars>>
VerifyEndpoint ==
    /\ hdr # NoHeader
    /\ \E expected_price_usd \in VerifyPrices, resource_url \in Urls :
        resp' = [op |-> "verify", header |-> hdr, clock |-> now,
                 price |-> expected_price_usd, url |-> resource_url,
                 result |-> VerifyPayment(hdr, expected_price_usd, resource_url, now)]
    /\ UNCHANGED <<now, ticks, hdr, tampered, calls, ledgerVars>>

\* POST /payments/settle
SettleEndpoint ==
    /\ hdr # NoHeader
    /\ \E actual_amount_usd \in ActualAmounts :
        IF hdr.enc # "b64" \/ hdr.json = "garbage"
        THEN /\ resp' = [op |-> "settle", header |-> hdr, clock |-> now,
                         price |-> actual_amount_usd,
                         result |-> [status |-> 200, settled |-> FALSE, tx_hash |-> <<>>,
                                     amount_paid |-> 0, error |-> "Invalid payment header"]]
             /\ calls' = calls
        ELSE SettlePayment(hdr, actual_amount_usd, "settle", FALSE, FALSE)
    /\ UNCHANGED <<now, ticks, hdr, tampered, ledgerVars>>

\* GET /payments/paid-resource
PaidResourceRecordingFirst ==
    /\ hdr # NoHeader
    /\ VerifyPayment(hdr, PaidPrice, PaidUrl, now).valid
    /\ SettlePayment(hdr, PaidPrice, "paid-resource", TRUE, FALSE)
    /\ limits' = [id \in DOMAIN limits |->
                     IF limits[id].is_active /\ limits[id].period # "per_transaction"
                     THEN [limits[id] EXCEPT !.current_spent_usd = @ + 1]
                     ELSE limits[id]]
    /\ UNCHANGED <<now, ticks, hdr, tampered, policies, pc, loaded, cycles, agents>>
PaidResource ==
    /\ IF hdr = NoHeader
       THEN /\ resp' = [op |-> "paid-resource", status |-> 402, detail |-> "Payment required"]
            /\ calls' = calls
       ELSE LET v == VerifyPayment(hdr, PaidPrice, PaidUrl, now)
            IN  IF ~v.valid
                THEN /\ resp' = [op |-> "paid-resource", status |-> 402, detail |-> v.error]
                     /\ calls' = calls
                ELSE SettlePayment(B64Json(v.data), PaidPrice, "paid-resource", TRUE, FALSE)
    /\ UNCHANGED <<now, ticks, hdr, tampered, ledgerVars>>

----------------------------------------------------------------------------
\* WalletService: spend limits.

Tasks == 1 .. NumTasks
Wallets == {"w1", "w2"}
RollingPeriods == {"hourly", "daily", "weekly", "monthly"}

\* settings.default_transaction_limit and settings.default_daily_spend_limit,
\* in USD
DEFAULT_TRANSACTION_LIMIT == 100
DEFAULT_DAILY_SPEND_LIMIT == 500
\* The daily limit of the wallet under load, and the amount of one spend, in cents.
DailyMaxCents == 10000
SpendCents == 1000

SpendLimit(wallet_id, period, max_amount_usd, clock) ==
    [wallet_id |-> wallet_id, period |-> period, max_amount_usd |-> max_amount_usd,
     current_spent_usd |-> 0, period_start_timestamp |-> clock, is_active |-> TRUE]

\* The rows check_spend_limits selects.
ActiveLimits(wallet_id) ==
    {id \in DOMAIN limits :
        limits[id].wallet_id = wallet_id /\ limits[id].is_active}

\* Whether one row makes check_spend_limits return False.
SingleSpendExceeded(limit, amount_usd_cents) ==
    amount_usd_cents > limit.max_amount_usd
LimitExceeded(limit, amount_usd_cents) ==
    IF limit.period = "per_transaction"
    THEN amount_usd_cents > limit.max_amount_usd
    ELSE limit.current_spent_usd + amount_usd_cents > limit.max_amount_usd

LimitReason(limit) ==
    IF limit.period = "per_transaction"
    THEN <<"Exceeds per-transaction limit of", limit.max_amount_usd>>
    ELSE <<"Exceeds limit of", limit.period, limit.max_amount_usd>>

\* check_spend_limits returns at the first row that is exceeded; the select
\* has no ORDER BY, so that row can be any of the exceeded ones.
CheckSpendLimits(wallet_id, amount_usd_cents) ==
    LET exceeded ==
            {id \in ActiveLimits(wallet_id) : LimitExceeded(limits[id], amount_usd_cents)}
    IN  IF exceeded = {}
        THEN {[allowed |-> TRUE, reason |-> <<>>]}
        ELSE {[allowed |-> FALSE, reason |-> LimitReason(limits[id])] : id \in exceeded}

\* The rows record_spend selects.
DailyLimitsOnly(wallet_id) ==
    {id \in ActiveLimits(wallet_id) : limits[id].period = "daily"}
RecordedLimits(wallet_id) ==
    {id \in ActiveLimits(wallet_id) : limits[id].period # "per_transaction"}

\* SpendLimit.remaining_usd
RemainingUsd(limit) ==
    IF limit.max_amount_usd - limit.current_spent_usd > 0
    THEN limit.max_amount_usd - limit.current_spent_usd
    ELSE 0

----------------------------------------------------------------------------
\* WalletService: policies.

\* datetime.now().hour and .weekday() (Monday is 0; the epoch was a Thursday).
HourOf(clock) == (clock \div 3600) % 24
WeekdayOf(clock) == ((clock \div 86400) + 3) % 7

AllHours == 0 .. 23
AllDays == 0 .. 6

\* A row of wallet_policies; config holds the keys of every policy type, a
\* key the config lacks holding the default config.get gives it.
WalletPolicy(wallet_id, name, policy_type, config, priority, is_active) ==
    [wallet_id |-> wallet_id, name |-> name, policy_type |-> policy_type,
     config |-> config, priority |-> priority, is_active |-> is_active]

Config(addresses, contract, methods, allowed_hours, allowed_days) ==
    [addresses |-> addresses, contract |-> contract, methods |-> methods,
     allowed_hours |-> allowed_hours, allowed_days |-> allowed_days]

InSeq(x, seq) == \E i \in DOMAIN seq : seq[i] = x
LowerAll(seq) == [i \in DOMAIN seq |-> Lower(seq[i])]

\* _evaluate_policy: [allowed, reason]. transaction.to and .method are ""
\* when the dict lacks them.
EvaluatePolicyHoursOnly(policy, transaction, clock) ==
    IF policy.policy_type = "time_based" /\ HourOf(clock) \notin policy.config.allowed_hours
    THEN [allowed |-> FALSE, reason |-> <<"Hour not allowed", HourOf(clock)>>]
    ELSE [allowed |-> TRUE, reason |-> <<>>]
EvaluatePolicy(policy, transaction, clock) ==
    LET config == policy.config
        to_address == Lower(transaction.to)
        Deny(reason) == [allowed |-> FALSE, reason |-> reason]
        Allow == [allowed |-> TRUE, reason |-> <<>>]
    IN  CASE policy.policy_type = "allowlist" ->
                IF to_address # "" /\ ~InSeq(to_address, LowerAll(config.addresses))
                THEN Deny(<<"Address not in allowlist", to_address>>)
                ELSE Allow
          [] policy.policy_type = "blocklist" ->
                IF InSeq(to_address, LowerAll(config.addresses))
                THEN Deny(<<"Address is blocked", to_address>>)
                ELSE Allow
          [] policy.policy_type = "contract_call" ->
                IF to_address # Lower(config.contract)
                THEN Deny(<<"Contract not allowed", to_address>>)
                ELSE IF config.methods # <<>> /\ ~InSeq(transaction.method, config.methods)
                THEN Deny(<<"Method not allowed", transaction.method>>)
                ELSE Allow
          [] policy.policy_type = "time_based" ->
                IF HourOf(clock) \notin config.allowed_hours
                THEN Deny(<<"Hour not allowed", HourOf(clock)>>)
                ELSE IF WeekdayOf(clock) \notin config.allowed_days
                THEN Deny(<<"Day not allowed", WeekdayOf(clock)>>)
                ELSE Allow
          [] OTHER -> Allow

\* Every sequence that lists each element of ids once.
RECURSIVE OrdersOf(_)
OrdersOf(ids) ==
    IF ids = {} THEN {<<>>}
    ELSE UNION {{<<id>> \o rest : rest \in OrdersOf(ids \ {id})} : id \in ids}

\* The active policies of a wallet, ORDER BY priority DESC: every order the
\* database may return rows of equal priority in.
PolicyOrdersAscending(wallet_id) ==
    LET ids == {id \in DOMAIN policies :
                    policies[id].wallet_id = wallet_id /\ policies[id].is_active}
    IN  {order \in OrdersOf(ids) :
            \A i, j \in DOMAIN order :
                i < j => policies[order[i]].priority <= policies[order[j]].priority}
PolicyOrders(wallet_id) ==
    LET ids == {id \in DOMAIN policies :
                    policies[id].wallet_id = wallet_id /\ policies[id].is_active}
    IN  {order \in OrdersOf(ids) :
            \A i, j \in DOMAIN order :
                i < j => policies[order[i]].priority >= policies[order[j]].priority}

FirstViolation(order, transaction, clock) ==
    LET bad == {i \in DOMAIN order :
                    ~EvaluatePolicy(policies[order[i]], transaction, clock).allowed}
        first == CHOOSE i \in bad : \A j \in bad : i <= j
    IN  IF bad = {} THEN <<>>
        ELSE <<[name |-> policies[order[first]].name,
                reason |-> EvaluatePolicy(policies[order[first]], transaction, clock).reason]>>
RECURSIVE Violations(_, _, _)
Violations(order, transaction, clock) ==
    IF order = <<>> THEN <<>>
    ELSE LET policy == policies[Head(order)]
             r == EvaluatePolicy(policy, transaction, clock)
             rest == Violations(Tail(order), transaction, clock)
         IN  IF r.allowed THEN rest ELSE <<[name |-> policy.name, reason |-> r.reason]>> \o rest

\* evaluate_policies: the results it can return.
FirstMatchPolicies(wallet_id, transaction, clock) ==
    {[allowed |-> order = <<>>
                    \/ EvaluatePolicy(policies[order[1]], transaction, clock).allowed,
      violations |-> Violations(order, transaction, clock)] :
        order \in PolicyOrders(wallet_id)}
EvaluatePolicies(wallet_id, transaction, clock) ==
    {LET violations == Violations(order, transaction, clock)
     IN  [allowed |-> Len(violations) = 0, violations |-> violations] :
        order \in PolicyOrders(wallet_id)}

----------------------------------------------------------------------------
\* The agents table before any agent is created: no id has a row.
AgentIds == {"a1", "a2"}
NoAgent == [owner_id |-> "", status |-> "none", wallets |-> <<>>]

\* The clock reading at the start: midnight of a Thursday, a week after the epoch.
StartClock == 7 * 86400

\* The state after create_wallet for w1 and w2 and the owner's setting of
\* their daily limits: each wallet has a daily and a per-transaction limit;
\* w1 also has a weekly limit that was deactivated in the database.
Idle == [at |-> "idle", amount |-> 0]

InitLimits ==
    [d1 |-> SpendLimit("w1", "daily", DailyMaxCents, StartClock),
     t1 |-> SpendLimit("w1", "per_transaction", DEFAULT_TRANSACTION_LIMIT * 100, StartClock),
     d2 |-> SpendLimit("w2", "daily", DailyMaxCents, StartClock),
     t2 |-> SpendLimit("w2", "per_transaction", DEFAULT_TRANSACTION_LIMIT * 100, StartClock),
     x1 |-> [SpendLimit("w1", "weekly", SpendCents, StartClock) EXCEPT !.is_active = FALSE]]

InitPolicies ==
    [p1 |-> WalletPolicy("w1", "allow", "allowlist",
                Config(<<"0xA1", "0xB2">>, "", <<>>, AllHours, AllDays), 0, TRUE),
     p2 |-> WalletPolicy("w1", "block", "blocklist",
                Config(<<"0xB2">>, "", <<>>, AllHours, AllDays), 5, TRUE),
     p3 |-> WalletPolicy("w1", "hours", "time_based",
                Config(<<>>, "", <<>>, 9 .. 17, AllDays), 5, TRUE),
     p4 |-> WalletPolicy("w1", "off", "blocklist",
                Config(<<"0xA1">>, "", <<>>, AllHours, AllDays), 9, FALSE),
     p5 |-> WalletPolicy("w2", "swap", "contract_call",
                Config(<<>>, "0xC0DE", <<"swap">>, AllHours, AllDays), 0, TRUE)]

InitAt(clocks) ==
    /\ now \in clocks
    /\ ticks = 0
    /\ hdr = NoHeader
    /\ tampered = FALSE
    /\ resp = NoResponse
    /\ calls = <<>>
    /\ limits = InitLimits
    /\ policies = InitPolicies
    /\ pc = [t \in Tasks |-> Idle]
    /\ loaded = [t \in Tasks |-> <<>>]
    /\ cycles = 0
    /\ agents = [id \in AgentIds |-> NoAgent]

Init == InitAt({StartClock})

Tick ==
    /\ ticks < MaxTicks
    /\ \E d \in {1, VALIDITY_SECONDS} : now' = now + d
    /\ ticks' = ticks + 1
    /\ resp' = NoResponse
    /\ UNCHANGED <<hdr, tampered, calls, ledgerVars>>

----------------------------------------------------------------------------
\* A spending task on wallet w1: check_spend_limits, then the settlement,
\* then record_spend, whose select and flush are two database round trips.

TaskWallet == "w1"
SpendAmounts == {SpendCents}

Check(t) ==
    /\ pc[t].at = "idle"
    /\ cycles < MaxCycles
    /\ \E amount_usd_cents \in SpendAmounts :
         \E r \in CheckSpendLimits(TaskWallet, amount_usd_cents) :
            pc' = [pc EXCEPT ![t] =
                      IF r.allowed
                      THEN [at |-> "authorized", amount |-> amount_usd_cents]
                      ELSE Idle]
    /\ UNCHANGED <<now, ticks, payVars, resp, limits, policies, loaded, cycles, agents>>

CycleSettle(t) ==
    /\ pc[t].at = "authorized"
    /\ \E outcome \in FacilitatorOutcomes :
         pc' = [pc EXCEPT ![t] =
                   IF outcome = "200" THEN [pc[t] EXCEPT !.at = "settled"] ELSE Idle]
    /\ UNCHANGED <<now, ticks, payVars, resp, limits, policies, loaded, cycles, agents>>

RecordLoad(t) ==
    /\ pc[t].at = "settled"
    /\ loaded' = [loaded EXCEPT ![t] =
                     [id \in RecordedLimits(TaskWallet) |-> limits[id].current_spent_usd]]
    /\ pc' = [pc EXCEPT ![t].at = "recording"]
    /\ UNCHANGED <<now, ticks, payVars, resp, limits, policies, cycles, agents>>

RecordFlush(t) ==
    /\ pc[t].at = "recording"
    /\ limits' = [id \in DOMAIN limits |->
                     IF id \in DOMAIN loaded[t]
                     THEN [limits[id] EXCEPT
                              !.current_spent_usd = loaded[t][id] + pc[t].amount]
                     ELSE limits[id]]
    /\ loaded' = [loaded EXCEPT ![t] = <<>>]
    /\ pc' = [pc EXCEPT ![t] = Idle]
    /\ cycles' = cycles + 1
    /\ UNCHANGED <<now, ticks, payVars, resp, policies, agents>>

----------------------------------------------------------------------------
\* The guard methods called on their own, the result in resp.

Recipients == {"", "0xA1", "0xa1", "0xB2", "0xC0DE"}
Methods == {"", "swap", "burn"}
\* The amounts of the proposed spends, in cents: $20 and $30.
ProposedCents == {2000, 3000}
CheckAmounts == {SpendCents, 2 * DailyMaxCents} \cup ProposedCents

EvaluatePoliciesCall ==
    /\ \E wallet_id \in Wallets, to \in Recipients, method \in Methods :
         LET transaction == [to |-> to, method |-> method]
         IN  \E r \in EvaluatePolicies(wallet_id, transaction, now) :
                resp' = [op |-> "evaluate_policies", wallet_id |-> wallet_id,
                         transaction |-> transaction, clock |-> now, result |-> r]
    /\ UNCHANGED <<now, ticks, payVars, ledgerVars>>

CheckAndReserve ==
    /\ \E wallet_id \in Wallets, amount_usd_cents \in CheckAmounts :
         \E r \in CheckSpendLimits(wallet_id, amount_usd_cents) :
            /\ resp' = [op |-> "check_spend_limits", wallet_id |-> wallet_id,
                        amount |-> amount_usd_cents, result |-> r]
            /\ limits' = [id \in DOMAIN limits |->
                             IF r.allowed /\ id \in RecordedLimits(wallet_id)
                             THEN [limits[id] EXCEPT
                                      !.current_spent_usd = @ + amount_usd_cents]
                             ELSE limits[id]]
    /\ UNCHANGED <<now, ticks, payVars, policies, pc, loaded, cycles, agents>>
CheckSpendLimitsCall ==
    /\ \E wallet_id \in Wallets, amount_usd_cents \in CheckAmounts :
         \E r \in CheckSpendLimits(wallet_id, amount_usd_cents) :
            resp' = [op |-> "check_spend_limits", wallet_id |-> wallet_id,
                     amount |-> amount_usd_cents, result |-> r]
    /\ UNCHANGED <<now, ticks, payVars, ledgerVars>>

----------------------------------------------------------------------------
\* The owner's changes to the spend_limits table, and record_spend.

LimitIds == {"d1", "t1", "d2", "t2", "x1", "h1"}

\* What the owner sets on w1: Daily max $30, PerTransaction max $25, and an
\* hourly limit of $30.
LimitUpdates ==
    {[period |-> "daily", max_amount_usd_cents |-> 3000],
     [period |-> "per_transaction", max_amount_usd_cents |-> 2500],
     [period |-> "hourly", max_amount_usd_cents |-> 3000]}

\* update_spend_limit: sets the maximum of the wallet's row of that period,
\* or creates the row.
UpdateSpendLimit ==
    /\ \E wallet_id \in {TaskWallet}, u \in LimitUpdates :
         LET rows == {id \in DOMAIN limits :
                         limits[id].wallet_id = wallet_id /\ limits[id].period = u.period}
         IN  IF rows # {}
             THEN limits' = [id \in DOMAIN limits |->
                                IF id \in rows
                                THEN [limits[id] EXCEPT !.max_amount_usd = u.max_amount_usd_cents]
                                ELSE limits[id]]
             ELSE /\ LimitIds \ DOMAIN limits # {}
                  /\ LET new == CHOOSE id \in LimitIds \ DOMAIN limits : TRUE
                     IN  limits' = [id \in DOMAIN limits \cup {new} |->
                                       IF id = new
                                       THEN SpendLimit(wallet_id, u.period,
                                                       u.max_amount_usd_cents, now)
                                       ELSE limits[id]]
    /\ resp' = [op |-> "update_spend_limit"]
    /\ UNCHANGED <<now, ticks, payVars, policies, pc, loaded, cycles, agents>>

\* The most a limit's current_spent_usd reaches in a behaviour.
MaxSpentCents == 4000

\* The amounts record_spend is called with when nothing restricts them: a
\* refund of $20, nothing, $20 and $30.
AnyCents == {-2000, 0} \cup ProposedCents

\* record_spend, run by one caller from its select to its flush, for an
\* amount out of `amounts`.
RecordSpendOf(amounts) ==
    /\ \E wallet_id \in {TaskWallet}, amount_usd_cents \in amounts :
         /\ \A id \in RecordedLimits(wallet_id) :
               /\ limits[id].current_spent_usd + amount_usd_cents <= MaxSpentCents
               /\ limits[id].current_spent_usd + amount_usd_cents >= -MaxSpentCents
         /\ limits' = [id \in DOMAIN limits |->
                          IF id \in RecordedLimits(wallet_id)
                          THEN [limits[id] EXCEPT
                                   !.current_spent_usd = @ + amount_usd_cents]
                          ELSE limits[id]]
         /\ resp' = [op |-> "record_spend", wallet_id |-> wallet_id,
                     amount |-> amount_usd_cents]
    /\ UNCHANGED <<now, ticks, payVars, policies, pc, loaded, cycles, agents>>

RecordSpend == RecordSpendOf(ProposedCents)

\* A caller that runs check_spend_limits and record_spend one after the
\* other, with nothing in between: record_spend for the wallet and the amount
\* of the check that was just answered, when that answer was "allowed".
RecordUnchecked ==
    /\ resp.op = "check_spend_limits"
    /\ limits' = [id \in DOMAIN limits |->
                     IF id \in RecordedLimits(resp.wallet_id)
                     THEN [limits[id] EXCEPT !.current_spent_usd = @ + resp.amount]
                     ELSE limits[id]]
    /\ resp' = [op |-> "record_spend", wallet_id |-> resp.wallet_id, amount |-> resp.amount]
    /\ UNCHANGED <<now, ticks, payVars, policies, pc, loaded, cycles, agents>>
RecordChecked ==
    /\ resp.op = "check_spend_limits"
    /\ resp.result.allowed
    /\ limits' = [id \in DOMAIN limits |->
                     IF id \in RecordedLimits(resp.wallet_id)
                     THEN [limits[id] EXCEPT !.current_spent_usd = @ + resp.amount]
                     ELSE limits[id]]
    /\ resp' = [op |-> "record_spend", wallet_id |-> resp.wallet_id, amount |-> resp.amount]
    /\ UNCHANGED <<now, ticks, payVars, policies, pc, loaded, cycles, agents>>

\* GET /wallets/{wallet_id}/spend-limits: every row of the wallet with its
\* remaining_usd. The response gives the amounts in USD, the cents over 100.
ListSpendLimits ==
    /\ \E wallet_id \in Wallets :
         LET rows == {id \in DOMAIN limits : limits[id].wallet_id = wallet_id}
         IN  resp' = [op |-> "list_spend_limits", wallet_id |-> wallet_id,
                      rows |-> [id \in rows |->
                                  [max_amount_usd |-> limits[id].max_amount_usd,
                                   current_spent_usd |-> limits[id].current_spent_usd,
                                   remaining_usd |-> RemainingUsd(limits[id])]]]
    /\ UNCHANGED <<now, ticks, payVars, ledgerVars>>

\* The clock advancing by an hour or by a day.
PeriodTick ==
    /\ ticks < MaxTicks
    /\ \E d \in {3600, 86400} : now' = now + d
    /\ ticks' = ticks + 1
    /\ resp' = NoResponse
    /\ UNCHANGED <<hdr, tampered, calls, ledgerVars>>

----------------------------------------------------------------------------
\* The owner's changes to the wallet_policies table.

PolicyIds == {"p1", "p2", "p3", "p4", "p5", "p6"}
\* The policies the owner asks to remove: that of w2, and the one added.
RemoveIds == {"p5", "p6"}
Priorities == {0, 5, 9}

\* What the owner adds: an allowlist and a blocklist that name 0xB2.
PolicyTemplates ==
    {[name |-> "allow-b2", policy_type |-> "allowlist",
      config |-> Config(<<"0xB2">>, "", <<>>, AllHours, AllDays)],
     [name |-> "block-b2", policy_type |-> "blocklist",
      config |-> Config(<<"0xb2">>, "", <<>>, AllHours, AllDays)]}

\* add_policy: a new row, active by the column's default.
AddPolicy ==
    /\ PolicyIds \ DOMAIN policies # {}
    /\ \E wallet_id \in Wallets, template \in PolicyTemplates, priority \in Priorities :
         LET id == CHOOSE id \in PolicyIds \ DOMAIN policies : TRUE
             row == WalletPolicy(wallet_id, template.name, template.policy_type,
                                 template.config, priority, TRUE)
         IN  policies' = [i \in DOMAIN policies \cup {id} |->
                             IF i = id THEN row ELSE policies[i]]
    /\ resp' = [op |-> "add_policy"]
    /\ UNCHANGED <<now, ticks, payVars, limits, pc, loaded, cycles, agents>>

\* The time windows the owner adds: office hours on Monday to Friday, and the
\* two hours 9 and 17 on any day.
TimeTemplates ==
    {[name |-> "office", policy_type |-> "time_based",
      config |-> Config(<<>>, "", <<>>, 9 .. 17, 0 .. 4)],
     [name |-> "nine-and-five", policy_type |-> "time_based",
      config |-> Config(<<>>, "", <<>>, {9, 17}, AllDays)]}

\* add_policy for a time window.
AddTimePolicy ==
    /\ PolicyIds \ DOMAIN policies # {}
    /\ \E wallet_id \in Wallets, template \in TimeTemplates, priority \in Priorities :
         LET id == CHOOSE id \in PolicyIds \ DOMAIN policies : TRUE
             row == WalletPolicy(wallet_id, template.name, template.policy_type,
                                 template.config, priority, TRUE)
         IN  policies' = [i \in DOMAIN policies \cup {id} |->
                             IF i = id THEN row ELSE policies[i]]
    /\ resp' = [op |-> "add_policy"]
    /\ UNCHANGED <<now, ticks, payVars, limits, pc, loaded, cycles, agents>>

\* remove_policy
RemovePolicy ==
    /\ \E policy_id \in RemoveIds :
         IF policy_id \in DOMAIN policies
         THEN /\ policies' = [i \in DOMAIN policies \ {policy_id} |-> policies[i]]
              /\ resp' = [op |-> "remove_policy", removed |-> TRUE]
         ELSE /\ policies' = policies
              /\ resp' = [op |-> "remove_policy", removed |-> FALSE]
    /\ UNCHANGED <<now, ticks, payVars, limits, pc, loaded, cycles, agents>>

----------------------------------------------------------------------------
\* The /agents endpoints and POST /wallets. A row's wallets are the agent's
\* agent_wallets rows, in the order they were created.

Users == {"u1", "u2"}

\* AgentService.get_agent(agent_id, owner_id): the row, or NoAgent for None.
GetAgentRow(agent_id, owner_id) ==
    IF agents[agent_id].status # "none" /\ agents[agent_id].owner_id = owner_id
    THEN agents[agent_id]
    ELSE NoAgent

AgentResponse(op, user, agent_id, status, agent) ==
    [op |-> op, user |-> user, agent_id |-> agent_id, status |-> status, agent |-> agent]

\* POST /agents
CreateAgent ==
    /\ \E id \in AgentIds : agents[id].status = "none"
    /\ \E user \in Users :
         LET id == CHOOSE id \in AgentIds : agents[id].status = "none"
             agent == [owner_id |-> user, status |-> "draft", wallets |-> <<>>]
         IN  /\ agents' = [agents EXCEPT ![id] = agent]
             /\ resp' = AgentResponse("create_agent", user, id, 201, agent)
    /\ UNCHANGED <<now, ticks, payVars, limits, policies, pc, loaded, cycles>>

\* The most wallets an agent is given in a behaviour.
MaxWallets == 2

\* What POST /wallets is asked for: by default a wallet labelled "Primary"
\* that is not primary; two wallets that are to be the primary one.
DefaultWallet == [label |-> "Primary", is_primary |-> FALSE]
WalletInputs ==
    {DefaultWallet,
     [label |-> "Main", is_primary |-> TRUE],
     [label |-> "Treasury", is_primary |-> TRUE]}

\* WalletService.create_wallet: the agent's wallets after the call.
WalletsKeepingPrimary(wallets, data) == Append(wallets, data)
WalletsAfterCreate(wallets, data) ==
    Append(IF data.is_primary
           THEN [i \in DOMAIN wallets |-> [wallets[i] EXCEPT !.is_primary = FALSE]]
           ELSE wallets,
           data)

\* _create_default_spend_limits for the n-th wallet of an agent: the table
\* with the wallet's daily and per-transaction rows added.
DefaultSpendLimits(agent_id, n, clock) ==
    LET wallet_id == agent_id \o "/" \o ToString(n)
        daily == "daily:" \o wallet_id
        single == "per_transaction:" \o wallet_id
    IN  [id \in DOMAIN limits \cup {daily, single} |->
            IF id = daily
            THEN SpendLimit(wallet_id, "daily", DEFAULT_DAILY_SPEND_LIMIT * 100, clock)
            ELSE IF id = single
            THEN SpendLimit(wallet_id, "per_transaction",
                            DEFAULT_TRANSACTION_LIMIT * 100, clock)
            ELSE limits[id]]

\* POST /wallets for an agent, with a request body out of `inputs`.
CreateAgentWallet(inputs) ==
    /\ \E user \in Users, id \in AgentIds, data \in inputs :
         LET agent == GetAgentRow(id, user)
         IN  IF agent = NoAgent
             THEN /\ resp' = AgentResponse("create_wallet", user, id, 404, NoAgent)
                  /\ agents' = agents
                  /\ limits' = limits
             ELSE /\ Len(agent.wallets) < MaxWallets
                  /\ agents' = [agents EXCEPT
                                    ![id].wallets = WalletsAfterCreate(agent.wallets, data)]
                  /\ limits' = DefaultSpendLimits(id, Len(agent.wallets) + 1, now)
                  /\ resp' = AgentResponse("create_wallet", user, id, 201, agents'[id])
    /\ UNCHANGED <<now, ticks, payVars, policies, pc, loaded, cycles>>

\* GET /agents/{agent_id}
GetAgent ==
    /\ \E user \in Users, id \in AgentIds :
         LET agent == GetAgentRow(id, user)
         IN  resp' = AgentResponse("get_agent", user, id,
                                   IF agent = NoAgent THEN 404 ELSE 200, agent)
    /\ UNCHANGED <<now, ticks, payVars, ledgerVars>>

\* POST /agents/{agent_id}/activate
ActivateAgent ==
    /\ \E user \in Users, id \in AgentIds :
         LET agent == GetAgentRow(id, user)
         IN  IF agent = NoAgent
             THEN /\ resp' = AgentResponse("activate_agent", user, id, 404, NoAgent)
                  /\ agents' = agents
             ELSE IF agent.wallets = <<>>
             THEN /\ resp' = AgentResponse("activate_agent", user, id, 400, NoAgent)
                  /\ agents' = agents
             ELSE /\ agents' = [agents EXCEPT ![id].status = "active"]
                  /\ resp' = AgentResponse("activate_agent", user, id, 200, agents'[id])
    /\ UNCHANGED <<now, ticks, payVars, limits, policies, pc, loaded, cycles>>

\* POST /agents/{agent_id}/pause
PauseAgent ==
    /\ \E user \in Users, id \in AgentIds :
         LET agent == GetAgentRow(id, user)
         IN  IF agent = NoAgent
             THEN /\ resp' = AgentResponse("pause_agent", user, id, 404, NoAgent)
                  /\ agents' = agents
             ELSE IF agent.status # "active"
             THEN /\ resp' = AgentResponse("pause_agent", user, id, 400, NoAgent)
                  /\ agents' = agents
             ELSE /\ agents' = [agents EXCEPT ![id].status = "paused"]
                  /\ resp' = AgentResponse("pause_agent", user, id, 200, agents'[id])
    /\ UNCHANGED <<now, ticks, payVars, limits, policies, pc, loaded, cycles>>

\* DELETE /agents/{agent_id}
DeleteAgent ==
    /\ \E user \in Users, id \in AgentIds :
         LET agent == GetAgentRow(id, user)
         IN  IF agent = NoAgent
             THEN /\ resp' = AgentResponse("delete_agent", user, id, 404, NoAgent)
                  /\ agents' = agents
             ELSE /\ agents' = [agents EXCEPT ![id].status = "archived"]
                  /\ resp' = AgentResponse("delete_agent", user, id, 204, NoAgent)
    /\ UNCHANGED <<now, ticks, payVars, limits, policies, pc, loaded, cycles>>

----------------------------------------------------------------------------
Next ==
    \/ Tick
    \/ Sign(Addresses, Keys, SignUrls, SignPrices)
    \/ ClientSign({"0xA1"}, Keys, Edits)
    \/ Tamper(Edits)
    \/ VerifyEndpoint

Spec == Init /\ [][Next]_vars

NextPay ==
    \/ Sign({"0xA1"}, {"k1"}, {PaidUrl}, {PaidPrice + 1})
    \/ Tamper(PayEdits)
    \/ VerifyEndpoint
    \/ SettleEndpoint
    \/ PaidResource

SpecPay == Init /\ [][NextPay]_vars

NextLedger ==
    \E t \in Tasks :
        \/ Check(t)
        \/ CycleSettle(t)
        \/ RecordLoad(t)
        \/ RecordFlush(t)

SpecLedger == Init /\ [][NextLedger]_vars

\* Clock readings at hour 0 and at hour 12 of a Thursday.
ErrorClocks == {StartClock, StartClock + 12 * 3600}

NextErrors ==
    \/ Sign({"0xA1"}, {"k1"}, SignUrls, {PaidPrice + 1})
    \/ ClientSign({"0xA1"}, {"k1"}, Edits)
    \/ Tamper(Edits)
    \/ VerifyEndpoint
    \/ EvaluatePoliciesCall
    \/ CheckSpendLimitsCall

SpecErrors == InitAt(ErrorClocks) /\ [][NextErrors]_vars

NextAgents ==
    \/ CreateAgent
    \/ CreateAgentWallet({DefaultWallet})
    \/ GetAgent
    \/ ActivateAgent
    \/ PauseAgent
    \/ DeleteAgent

SpecAgents == Init /\ [][NextAgents]_vars

NextLimits ==
    \/ UpdateSpendLimit
    \/ RecordSpend
    \/ CheckSpendLimitsCall
    \/ EvaluatePoliciesCall
    \/ PeriodTick

SpecLimits == Init /\ [][NextLimits]_vars

NextPolicy ==
    \/ AddPolicy
    \/ RemovePolicy
    \/ EvaluatePoliciesCall

SpecPolicy == Init /\ [][NextPolicy]_vars

NextAmounts ==
    \/ UpdateSpendLimit
    \/ RecordSpendOf(AnyCents)
    \/ CheckSpendLimitsCall
    \/ ListSpendLimits

SpecAmounts == Init /\ [][NextAmounts]_vars

NextWallets ==
    \/ CreateAgent
    \/ CreateAgentWallet(WalletInputs)
    \/ GetAgent

SpecWallets == Init /\ [][NextWallets]_vars

NextSequential ==
    \/ CheckSpendLimitsCall
    \/ RecordChecked

SpecSequential == Init /\ [][NextSequential]_vars

\* Clock readings on a Thursday and on the Saturday after it, before, at the
\* ends of, within and after the hours 9 to 17.
WindowClocks ==
    {StartClock + d * 86400 + h * 3600 : d \in {0, 2}, h \in {3, 9, 12, 17, 18}}

NextWindow ==
    \/ AddTimePolicy
    \/ EvaluatePoliciesCall

SpecWindow == InitAt(WindowClocks) /\ [][NextWindow]_vars

NextNonce ==
    \/ Tick
    \/ Sign(Addresses, {"k1"}, SignUrls, SignPrices)
    \/ SignAgain(Addresses, {"k1"}, SignUrls, SignPrices)

SpecNonce == Init /\ [][NextNonce]_vars

----------------------------------------------------------------------------
\* Properties.

SettledCalls == {i \in DOMAIN calls : calls[i].outcome = "200"}

\* C1: concurrent check -> settle -> record cycles of SpendCents against the
\* daily limit DailyMaxCents never complete more than DailyMaxCents / SpendCents
\* (ten) cycles, and current_spent_usd never exceeds max_amount_usd.
C1_AtMostTenCycles ==
    /\ cycles * SpendCents <= DailyMaxCents
    /\ \A id \in RecordedLimits(TaskWallet) :
         limits[id].current_spent_usd <= limits[id].max_amount_usd

\* C2: once a settle with some nonce has succeeded, no later settle with the
\* same nonce reaches the facilitator: each nonce is charged at most once.
C2_SettleOncePerNonce ==
    \A i, j \in DOMAIN calls :
        (i < j /\ calls[i].outcome = "200" /\ calls[i].nonce.t = "digest")
            => calls[j].nonce # calls[i].nonce

\* C3: the amount sent to the facilitator never exceeds the amount the
\* credential authorizes.
C3_ChargeWithinAuthorization ==
    \A i \in DOMAIN calls :
        LET amount == Get(calls[i].paymentData, "amount", JInt(0))
        IN  CanInt(amount) => calls[i].amount <= IntOf(amount)

\* C4: a request reaches the facilitator only after evaluate_policies and
\* check_spend_limits allowed the spend, and a settled spend is recorded in
\* the ledger.
C4_SettleOnlyAfterGuard ==
    /\ \A i \in DOMAIN calls : calls[i].guard
    /\ SettledCalls # {} =>
          \E id \in DOMAIN limits : limits[id].current_spent_usd > 0

\* C5: a credential reaches the facilitator only if the handler verified it
\* and it passes the checks of verify_payment at that time.
C5_OnlyVerifiedSettled ==
    \A i \in DOMAIN calls :
        /\ calls[i].verified
        /\ \E price \in VerifyPrices, url \in Urls :
             VerifyPayment(B64Json(calls[i].paymentData), price, url, calls[i].clock).valid

\* A header that decodes to a dict with every required field, each of the
\* type create_payment_header writes.
WellFormed(header) ==
    /\ header.enc = "b64" /\ header.json = "object"
    /\ \A f \in RequiredFields : Has(header.obj, f)
    /\ Get(header.obj, "amount", JNone).t = "numeral"
    /\ Get(header.obj, "validUntil", JNone).t = "int"
    /\ Get(header.obj, "signer", JNone).t = "str"
    /\ Get(header.obj, "signature", JNone).t = "hexsig"
    /\ Get(header.obj, "signature", JNone).key # "truncated"

\* The four checks of the verifier as the specification states them.
RefResource(d, url) == Get(d, "resource", JNone) = JStr(url)
RefAmount(d, price) == Get(d, "amount", JNone).n >= ToWei(price)
RefFresh(d, clock) == Get(d, "validUntil", JNone).n > clock
RefSigned(d) ==
    LET sig == Get(d, "signature", JNone)
    IN  /\ sig.msg = DumpsSorted(Without(d, {"signature", "signer"}))
        /\ Lower(AddressOf(sig.key)) = Lower(Get(d, "signer", JNone).s)

RefError(d, price, url, clock) ==
    IF ~RefResource(d, url) THEN "Resource URL mismatch"
    ELSE IF ~RefAmount(d, price) THEN "Insufficient payment amount"
    ELSE IF ~RefFresh(d, clock) THEN "Payment expired"
    ELSE IF ~RefSigned(d) THEN "Invalid signature"
    ELSE ""

\* C6: on a well-formed credential verify succeeds iff the resource matches,
\* the amount is at least the minimum, validUntil > now and the signature
\* recovers to the signer, and otherwise reports the first failing check.
C6_VerifyIsReference ==
    (resp.op = "verify" /\ WellFormed(resp.header)) =>
        LET d == resp.header.obj
        IN  /\ resp.result.valid = (RefError(d, resp.price, resp.url, resp.clock) = "")
            /\ resp.result.error = RefError(d, resp.price, resp.url, resp.clock)

\* C7: a verify request changes nothing but its own response: not the header,
\* the clock, the facilitator's log, the ledger, the policies or any task.
C7_VerifyHasNoSideEffects ==
    [][(resp'.op = "verify" /\ resp' # resp) =>
            UNCHANGED <<now, ticks, hdr, tampered, calls, limits, policies, pc, loaded, cycles, agents>>]_vars

\* C7 witness: a credential was verified and accepted after the facilitator
\* had already been sent a settlement.
C7_Witness ==
    /\ resp.op = "verify" /\ resp.result.valid
    /\ calls # <<>>

VerifierErrors ==
    {"Resource URL mismatch", "Insufficient payment amount", "Payment expired",
     "Invalid signature"}

\* C8: a credential that lacks a required field is rejected by verify, and
\* not with one of the four errors of the verifier's checks.
C8_MissingFieldIsMalformed ==
    (/\ resp.op = "verify"
     /\ resp.header.json = "object"
     /\ \E f \in RequiredFields : ~Has(resp.header.obj, f))
        => /\ ~resp.result.valid
           /\ resp.result.error \notin VerifierErrors

\* What makes verify_payment fail or raise, step by step.
VerifyFails(header, price, url, clock) ==
    \/ header.enc # "b64"
    \/ header.json # "object"
    \/ LET d == header.obj
           amount == Get(d, "amount", JInt(0))
           valid_until == Get(d, "validUntil", JInt(0))
           sig == Get(d, "signature", JStr(""))
           signer == Get(d, "signer", JNone)
       IN  \/ Get(d, "resource", JNone) # JStr(url)
           \/ amount.t \notin {"int", "numeral"}
           \/ amount.n < ToWei(price)
           \/ valid_until.t # "int"
           \/ valid_until.n < clock
           \/ ~Has(d, "signer")
           \/ signer.t \in {"none", "int"}
           \/ sig.t # "hexsig"
           \/ sig.key \notin {"k1", "k2"}
           \/ sig.msg # DumpsSorted(Without(d, {"signature", "signer"}))
           \/ Lower(AddressOf(sig.key)) # Lower(signer.s)

\* C9: a verify in which any step fails or raises returns invalid with an
\* error; an evaluate_policies that finds an active policy violated returns
\* not allowed with a reason for it; a check_spend_limits that finds an active
\* limit exceeded returns not allowed with a reason.
C9_NoFailureAllows ==
    /\ resp.op = "verify" =>
          /\ (VerifyFails(resp.header, resp.price, resp.url, resp.clock)
                => ~resp.result.valid)
          /\ (~resp.result.valid => resp.result.error # "")
    /\ resp.op = "evaluate_policies" =>
          \A id \in DOMAIN policies :
              (/\ policies[id].wallet_id = resp.wallet_id
               /\ policies[id].is_active
               /\ ~EvaluatePolicy(policies[id], resp.transaction, resp.clock).allowed)
                  => /\ ~resp.result.allowed
                     /\ \E i \in DOMAIN resp.result.violations :
                          /\ resp.result.violations[i].name = policies[id].name
                          /\ resp.result.violations[i].reason # <<>>
    /\ resp.op = "check_spend_limits" =>
          ((\E id \in ActiveLimits(resp.wallet_id) : LimitExceeded(limits[id], resp.amount))
              => (~resp.result.allowed /\ resp.result.reason # <<>>))

\* C9 witness: a verify that raised (the signer is missing) was answered
\* invalid.
C9_Witness ==
    /\ resp.op = "verify"
    /\ resp.header.json = "object"
    /\ ~Has(resp.header.obj, "signer")
    /\ RefResource(resp.header.obj, resp.url)
    /\ resp.result.error = "exception: no attribute lower"

\* The clock readings before validUntil at which a header signed now is tried.
ClocksBeforeExpiry == {now, now + 1, now + VALIDITY_SECONDS - 1}

AcceptedWhenSigned ==
    \A price \in VerifyPrices \cup SignPrices, clock \in ClocksBeforeExpiry :
        ToWei(price) <= ToWei(resp.price_usd)
            => VerifyPayment(hdr, price, resp.resource_url, clock).valid

\* C10 as stated: every header create_payment_header returns is accepted by
\* verify_payment for the same resource, a minimum of at most the amount, and
\* a clock before validUntil.
C10_SignedIsAccepted ==
    (resp.op = "create-header" /\ resp.status = 200) => AcceptedWhenSigned

\* C10 amended: every header create_payment_header returns for a
\* wallet_address that is the address of private_key is accepted so.
C10_SignedByOwnerIsAccepted ==
    (/\ resp.op = "create-header" /\ resp.status = 200
     /\ Lower(resp.wallet_address) = Lower(AddressOf(resp.private_key)))
        => AcceptedWhenSigned

\* C10 witness: a header was signed for the lower-case form of the key's
\* address, at a price the int() conversion truncates.
C10_Witness ==
    /\ resp.op = "create-header" /\ resp.status = 200
    /\ resp.wallet_address = "0xa1" /\ resp.private_key = "k1"
    /\ resp.price_usd = PaidPrice + 1
    /\ hdr.json = "object"

----------------------------------------------------------------------------
\* Properties of policy evaluation.

\* The active policies of the wallet that the transaction of the last
\* evaluate_policies call violates.
ViolatedPolicies ==
    {id \in DOMAIN policies :
        /\ policies[id].wallet_id = resp.wallet_id
        /\ policies[id].is_active
        /\ ~EvaluatePolicy(policies[id], resp.transaction, resp.clock).allowed}

\* C11: evaluate_policies reports one violation for each active policy of the
\* wallet that the transaction violates, in descending priority order, none
\* for any other policy, and allows exactly when there is none.
C11_EveryViolationReported ==
    resp.op = "evaluate_policies" =>
        /\ resp.result.allowed = (ViolatedPolicies = {})
        /\ \E order \in OrdersOf(ViolatedPolicies) :
              /\ \A i, j \in DOMAIN order :
                    i < j => policies[order[i]].priority >= policies[order[j]].priority
              /\ resp.result.violations =
                    [i \in DOMAIN order |->
                        [name |-> policies[order[i]].name,
                         reason |-> EvaluatePolicy(policies[order[i]], resp.transaction,
                                                   resp.clock).reason]]

\* C11 witness: a transaction violated two active policies of different
\* priority while the wallet also held an inactive policy that it violates.
C11_Witness ==
    /\ resp.op = "evaluate_policies"
    /\ Len(resp.result.violations) >= 2
    /\ \E a, b \in ViolatedPolicies : policies[a].priority > policies[b].priority
    /\ \E id \in DOMAIN policies :
          /\ policies[id].wallet_id = resp.wallet_id
          /\ ~policies[id].is_active
          /\ ~EvaluatePolicy(policies[id], resp.transaction, resp.clock).allowed

Range(seq) == {seq[i] : i \in DOMAIN seq}

\* The active policies of the wallet of the last evaluate_policies call.
EvaluatedPolicies ==
    {id \in DOMAIN policies :
        policies[id].wallet_id = resp.wallet_id /\ policies[id].is_active}

\* C12: whatever order the priorities put the active policies in, the
\* evaluation gives the same allowed flag and the same set of violations as
\* the call returned.
C12_OutcomeIndependentOfOrder ==
    resp.op = "evaluate_policies" =>
        \A order \in OrdersOf(EvaluatedPolicies) :
            LET violations == Violations(order, resp.transaction, resp.clock)
            IN  /\ (Len(violations) = 0) = resp.result.allowed
                /\ Range(violations) = Range(resp.result.violations)

\* C12 witness: a transaction violated two active policies of equal priority
\* and a third of another priority.
C12_Witness ==
    /\ resp.op = "evaluate_policies"
    /\ ~resp.result.allowed
    /\ \E a, b, c \in ViolatedPolicies :
          /\ a # b
          /\ policies[a].priority = policies[b].priority
          /\ policies[c].priority # policies[a].priority

\* The active policies of the given type of the evaluated wallet that name
\* the recipient of the evaluated transaction.
PoliciesNaming(policy_type) ==
    {id \in EvaluatedPolicies :
        /\ policies[id].policy_type = policy_type
        /\ InSeq(Lower(resp.transaction.to), LowerAll(policies[id].config.addresses))}

\* C13: a transfer to an address that an active allowlist and an active
\* blocklist of the wallet both contain is rejected.
C13_BlocklistWins ==
    (/\ resp.op = "evaluate_policies"
     /\ PoliciesNaming("allowlist") # {}
     /\ PoliciesNaming("blocklist") # {})
        => ~resp.result.allowed

\* C13 witness: the allowlist that contains the recipient has a higher
\* priority than the blocklist that contains it, and the transfer was rejected.
C13_Witness ==
    /\ resp.op = "evaluate_policies"
    /\ ~resp.result.allowed
    /\ \E a \in PoliciesNaming("allowlist"), b \in PoliciesNaming("blocklist") :
          policies[a].priority > policies[b].priority

----------------------------------------------------------------------------
\* Properties of the spend-limit ledger.

\* The active limits of the wallet of the last check_spend_limits call that
\* its amount exceeds, as the specification states it.
ExceededLimits ==
    {id \in DOMAIN limits :
        /\ limits[id].wallet_id = resp.wallet_id
        /\ limits[id].is_active
        /\ \/ /\ limits[id].period = "per_transaction"
              /\ resp.amount > limits[id].max_amount_usd
           \/ /\ limits[id].period \in RollingPeriods
              /\ limits[id].current_spent_usd + resp.amount > limits[id].max_amount_usd}

\* C14: check_spend_limits rejects iff the amount is above the maximum of an
\* active per-transaction limit, or the amount added to current_spent_usd is
\* above the maximum of an active rolling limit of the wallet.
C14_CheckRejectsIffExceeded ==
    resp.op = "check_spend_limits" =>
        (resp.result.allowed = (ExceededLimits = {}))

\* C14 witness: with Daily max $30 and $20 recorded, a check of $20 (below the
\* per-transaction maximum) was rejected.
C14_Witness ==
    /\ resp.op = "check_spend_limits"
    /\ resp.wallet_id = "w1" /\ resp.amount = 2000
    /\ limits["d1"].max_amount_usd = 3000 /\ limits["d1"].current_spent_usd = 2000
    /\ limits["t1"].max_amount_usd >= 2000
    /\ ~resp.result.allowed

\* C15: a record_spend step adds the amount to current_spent_usd of every
\* active rolling limit of the wallet and changes no other row and no other
\* field; current_spent_usd of a per-transaction limit stays 0 in every step.
C15_RecordAddsToRollingLimits ==
    [][/\ resp'.op = "record_spend" =>
            /\ DOMAIN limits' = DOMAIN limits
            /\ \A id \in DOMAIN limits :
                  limits'[id] =
                      IF /\ limits[id].wallet_id = resp'.wallet_id
                         /\ limits[id].is_active
                         /\ limits[id].period \in RollingPeriods
                      THEN [limits[id] EXCEPT
                               !.current_spent_usd = @ + resp'.amount]
                      ELSE limits[id]
       /\ \A id \in DOMAIN limits' :
            limits'[id].period = "per_transaction"
                => limits'[id].current_spent_usd = 0]_vars

\* C15 witness: a spend was recorded on a wallet with two active rolling
\* limits, a per-transaction limit and an inactive limit.
C15_Witness ==
    /\ resp.op = "record_spend"
    /\ Cardinality({id \in RecordedLimits(resp.wallet_id) :
                        limits[id].current_spent_usd > 0}) >= 2
    /\ \E id \in DOMAIN limits :
          limits[id].wallet_id = resp.wallet_id /\ ~limits[id].is_active

\* The length of a rolling period in seconds, a month taken as 30 days.
PeriodSeconds(period) ==
    CASE period = "hourly" -> 3600
      [] period = "daily" -> 86400
      [] period = "weekly" -> 7 * 86400
      [] OTHER -> 30 * 86400

\* C16: a check at a time when the window of every rolling limit of the
\* wallet has elapsed, for an amount within every maximum, is allowed: the
\* elapsed limits count as reset.
C16_ElapsedPeriodIsReset ==
    (/\ resp.op = "check_spend_limits"
     /\ \A id \in DOMAIN limits :
          (limits[id].wallet_id = resp.wallet_id /\ limits[id].is_active) =>
              /\ resp.amount <= limits[id].max_amount_usd
              /\ limits[id].period \in RollingPeriods =>
                    now - limits[id].period_start_timestamp
                        >= PeriodSeconds(limits[id].period))
        => resp.result.allowed

\* C17: a check_spend_limits or evaluate_policies step changes no spend
\* limit and no policy.
C17_GuardHasNoSideEffects ==
    [][resp'.op \in {"check_spend_limits", "evaluate_policies"}
            => UNCHANGED <<limits, policies>>]_vars

\* C17 witness: a check was allowed on a wallet that has recorded spends.
C17_Witness ==
    /\ resp.op = "check_spend_limits"
    /\ resp.result.allowed
    /\ \E id \in RecordedLimits(resp.wallet_id) : limits[id].current_spent_usd > 0

\* C18: a rejection by check_spend_limits reports the reason of every limit
\* the amount exceeds.
C18_EveryExceededLimitReported ==
    resp.op = "check_spend_limits" =>
        LET reported == {resp.result.reason}
        IN  \A id \in ExceededLimits : LimitReason(limits[id]) \in reported

\* Whether a response of POST /payments/settle or GET /payments/paid-resource
\* reports a settlement that did not settle.
FailedSettlement(r) ==
    /\ r.op \in {"settle", "paid-resource"}
    /\ "result" \in DOMAIN r
    /\ ~r.result.settled

\* C19: a step whose settlement fails (facilitator error status, exception,
\* timeout or unsupported chain) changes no spend limit.
C19_FailedSettleLeavesLedger ==
    [][FailedSettlement(resp') => UNCHANGED limits]_vars

\* C19 witness: the settlement of a verified credential timed out after an
\* earlier request had reached the facilitator.
C19_Witness ==
    /\ FailedSettlement(resp)
    /\ resp.op = "paid-resource"
    /\ resp.result.error = "exception: timeout"
    /\ Len(calls) >= 2
    /\ \A id \in DOMAIN limits : limits[id].current_spent_usd = 0

----------------------------------------------------------------------------
\* Properties of the agents endpoints.

\* C20: a get of an agent that its owner has deleted answers 404.
C20_DeletedAgentNotFound ==
    (/\ resp.op = "get_agent"
     /\ agents[resp.agent_id].status = "archived"
     /\ agents[resp.agent_id].owner_id = resp.user)
        => resp.status = 404

----------------------------------------------------------------------------
\* C21: activating an agent that was just created (status draft) answers 200
\* and leaves it active; pausing an active agent answers 200 and leaves it
\* paused; pausing an agent that is not active fails and leaves its status as
\* it was.
C21_StatusLifecycle ==
    [][/\ resp'.op = "activate_agent"
          => \A id \in AgentIds :
               (/\ resp'.agent_id = id
                /\ agents[id].status = "draft"
                /\ agents[id].owner_id = resp'.user)
               => /\ resp'.status = 200
                  /\ agents'[id].status = "active"
       /\ resp'.op = "pause_agent"
          => \A id \in AgentIds :
               (resp'.agent_id = id /\ agents[id].owner_id = resp'.user)
               => IF agents[id].status = "active"
                  THEN resp'.status = 200 /\ agents'[id].status = "paused"
                  ELSE resp'.status # 200 /\ agents'[id] = agents[id]]_vars

----------------------------------------------------------------------------
\* C22: verify accepts a credential only while validUntil > now; a well-formed
\* credential for the right resource and a sufficient amount that is verified
\* at now = validUntil, or later, is rejected as expired.
C22_ExpiryIsStrict ==
    (resp.op = "verify" /\ WellFormed(resp.header)) =>
        LET d == resp.header.obj
            valid_until == Get(d, "validUntil", JNone).n
        IN  /\ resp.result.valid => valid_until > resp.clock
            /\ (/\ valid_until <= resp.clock
                /\ RefResource(d, resp.url)
                /\ RefAmount(d, resp.price))
               => resp.result.error = "Payment expired"

----------------------------------------------------------------------------
\* C23: the amount settle asks the facilitator to transfer is actualAmount
\* whenever actualAmount is provided, zero included, and credential.amount
\* only when it is not provided.
C23_ChargesActualAmount ==
    [][(calls' # calls /\ resp'.op \in {"settle", "paid-resource"}) =>
            calls'[Len(calls')].amount =
                IF resp'.price # NotProvided
                THEN ToWei(resp'.price)
                ELSE IntOf(Get(calls'[Len(calls')].paymentData, "amount", JInt(0)))]_vars

----------------------------------------------------------------------------
\* C24: a credential produced by create_payment_header carries a nonce
\* different from the nonce of the credential produced by the call before it,
\* whoever the payers are and whatever the clock reads at the two calls.
C24_NoncesAreFresh ==
    [][(/\ hdr # NoHeader /\ ~tampered
        /\ resp'.op = "create-header" /\ resp'.status = 200)
       => Get(hdr'.obj, "nonce", JNone) # Get(hdr.obj, "nonce", JNone)]_vars

----------------------------------------------------------------------------
\* C25: evaluate_policies reports a violation of an active allowlist policy
\* exactly when the transaction's recipient, lower-cased, is not one of the
\* policy's lower-cased addresses; a transaction with no recipient or an
\* empty one is such a violation.
C25_AllowlistViolatedIffNotListed ==
    resp.op = "evaluate_policies" =>
        \A id \in DOMAIN policies :
            (/\ policies[id].wallet_id = resp.wallet_id
             /\ policies[id].is_active
             /\ policies[id].policy_type = "allowlist")
            => ((\E i \in DOMAIN resp.result.violations :
                    /\ resp.result.violations[i].name = policies[id].name
                    /\ resp.result.violations[i].reason[1] = "Address not in allowlist")
                <=> ~InSeq(Lower(resp.transaction.to),
                           LowerAll(policies[id].config.addresses)))

----------------------------------------------------------------------------
----------------------------------------------------------------------------
\* C27: a settle request for a credential whose chainId belongs to none of the
\* configured networks is answered with settled = false and the unsupported
\* chain error, and the facilitator receives no request.
C27_UnsupportedChainNotPosted ==
    [][(/\ resp'.op = "settle"
        /\ hdr.enc = "b64" /\ hdr.json = "object"
        /\ \A net \in DOMAIN NETWORKS :
              JInt(NETWORKS[net].chain_id) # Get(hdr.obj, "chainId", JNone))
       => /\ ~resp'.result.settled
          /\ resp'.result.status = 400
          /\ resp'.result.error = "Unsupported chain ID"
          /\ calls' = calls]_vars

\* C27 witness: a credential was settled, its chainId was then changed to an
\* unknown chain, and the next settle request was refused for that, the
\* facilitator's log still holding the first request only.
C27_Witness ==
    /\ resp.op = "settle"
    /\ resp.result.error = "Unsupported chain ID"
    /\ Get(hdr.obj, "chainId", JNone) = JInt(1)
    /\ Len(calls) = 1
    /\ calls[1].chainId = FUJI_CHAIN_ID

----------------------------------------------------------------------------
\* C28: after any record, check and update_spend_limit operations, with any
\* amounts, no spend limit has a negative current_spent_usd, and the remaining
\* amount reported for a limit is max(0, max_amount_usd - current_spent_usd).
C28_SpentNeverNegative ==
    /\ \A id \in DOMAIN limits : limits[id].current_spent_usd >= 0
    /\ resp.op = "list_spend_limits" =>
          \A id \in DOMAIN resp.rows :
              resp.rows[id].remaining_usd =
                  IF limits[id].max_amount_usd >= limits[id].current_spent_usd
                  THEN limits[id].max_amount_usd - limits[id].current_spent_usd
                  ELSE 0

----------------------------------------------------------------------------
\* C29: when callers run one after the other, every record_spend(w, a) with
\* a >= 0 directly follows a check_spend_limits(w, a) that allowed it, and no
\* limit is updated, every active rolling limit keeps
\* current_spent_usd <= max_amount_usd.
C29_SequentialSpentWithinMax ==
    \A id \in DOMAIN limits :
        (limits[id].is_active /\ limits[id].period # "per_transaction")
        => limits[id].current_spent_usd <= limits[id].max_amount_usd

\* C29 witness: a checked spend was recorded that used a daily limit up to
\* its maximum exactly.
C29_Witness ==
    /\ resp.op = "record_spend"
    /\ resp.amount > 0
    /\ \E id \in RecordedLimits(resp.wallet_id) :
          limits[id].current_spent_usd = limits[id].max_amount_usd

----------------------------------------------------------------------------
\* C30: after any create_wallet calls made one after the other, an agent has
\* at most one wallet with is_primary set, and after a create_wallet with
\* is_primary set the wallet it created is that one.
C30_SinglePrimaryWallet ==
    /\ \A id \in AgentIds :
          Cardinality({i \in DOMAIN agents[id].wallets :
                          agents[id].wallets[i].is_primary}) <= 1
    /\ \A id \in AgentIds :
          (/\ resp.op = "create_wallet" /\ resp.status = 201
           /\ resp.agent_id = id
           /\ agents[id].wallets[Len(agents[id].wallets)].is_primary)
          => \A i \in DOMAIN agents[id].wallets :
                agents[id].wallets[i].is_primary <=> i = Len(agents[id].wallets)

\* C30 witness: an agent whose wallet "Main" was created as the primary one
\* got the wallet "Treasury" as the primary one, and "Main" no longer is.
C30_Witness ==
    /\ resp.op = "create_wallet" /\ resp.status = 201
    /\ agents[resp.agent_id].wallets =
          <<[label |-> "Main", is_primary |-> FALSE],
            [label |-> "Treasury", is_primary |-> TRUE]>>

====
